---- MODULE Spec2Model ----
(***************************************************************************)
(* Model of the DAU monitor (src/main.py): the /tick trigger, the          *)
(* background run monitor_dau_task, and the per-site fetcher               *)
(* fetch_dau_data with its retry loop.                                     *)
(*                                                                         *)
(* Python values are encoded as follows.                                   *)
(*   Optional[T]      : <<>> is None, <<v>> is the value v.                *)
(*   a label string   : [prefix, name]; "frontend-site" is                 *)
(*                      [prefix |-> "frontend-", name |-> "site"], so      *)
(*                      startswith and == are computed on the parts.       *)
(*   a JSON object    : a set of <<key, value>> pairs.                     *)
(*   timestamps       : left out (datetime.now() is read by no branch).    *)
(***************************************************************************)
EXTENDS Integers, Sequences, FiniteSets, TLC

VARIABLES
    pc,             \* position of the run: idle, scheduled, gather, post, done, raised
    http,           \* status of the last answer of POST /tick (0: none yet)
    payload,        \* MonitorPayload.settings of the accepted request
    sites,          \* monitor_dau_task: local `sites`
    frontend_url,   \* monitor_dau_task: local `frontend_url`
    fetch,          \* the running fetch_dau_data coroutines (index = position in sites)
    order,          \* history: site indices in the order their fetches returned
    results,        \* monitor_dau_task: local `results`
    message_lines,  \* monitor_dau_task: local `message_lines`
    final_payload,  \* Optional: the dict handed to client.post
    posts,          \* number of POSTs issued to return_url
    post_status,    \* status of the callback answer (0: none)
    caught,         \* Optional: the exception the except clause caught and logged
    propagated,     \* Optional: the exception that left monitor_dau_task
    tracing,        \* auxiliary: whether a fetch records the responses it saw
    request,        \* history: the settings of the last request POST /tick received
    accepted,       \* history: number of requests POST /tick answered with 202
    other           \* the run that is not the one in the variables above

vars == <<pc, http, payload, sites, frontend_url, fetch, order, results,
          message_lines, final_payload, posts, post_status, caught, propagated,
          tracing, request, accepted, other>>

----------------------------------------------------------------------------
(* Bound of the model: a request holds at most MaxSites site- entries and  *)
(* at most MaxSites + 1 entries in all.                                    *)

MaxSites == 2

(* Settings.MAX_RETRIES *)
MAX_RETRIES == 3

None == <<>>

Some(v) == <<v>>

----------------------------------------------------------------------------
(* Requests. *)

Label(p, n) == [prefix |-> p, name |-> n]

startswith(label, p) == label.prefix = p

Setting(l, d) == [label |-> l, default |-> d]

BadUrl == "not-a-url"

SiteUrls == {"http://a", BadUrl}

SiteSettings == {Setting(Label("site-", "1"), u) : u \in SiteUrls}

ExtraSettings ==
    { Setting(Label("frontend-", "site"), "http://fa"),
      Setting(Label("frontend-", "2"), "http://fb"),
      Setting(Label("interval", ""), "@hourly"),
      Setting(Label("other-", "x"), "x") }

SeqsUpTo(S, n) == UNION {[1..k -> S] : k \in 0..n}

(* sum(1 for s in v if s.label.startswith(prefix)) *)
count_prefix(v, prefix) ==
    Cardinality({i \in DOMAIN v : startswith(v[i].label, prefix)})

(* The requests tried: the site- entries first, then the other entries. *)
Payloads ==
    { a \o b : a \in SeqsUpTo(SiteSettings, MaxSites),
               b \in SeqsUpTo(ExtraSettings, MaxSites + 1) } \cap
    SeqsUpTo(SiteSettings \cup ExtraSettings, MaxSites + 1)

validate_label(v) ==
    \E prefix \in {"site-", "frontend-", "interval"} : startswith(v, prefix)

(* Mutant: the test for a missing site- entry left out. *)
validate_settings_no_site_test(v) ==
    ~(count_prefix(v, "frontend-") > count_prefix(v, "site-"))

validate_settings(v) ==
    LET site_count == count_prefix(v, "site-")
        frontend_count == count_prefix(v, "frontend-")
    IN  /\ site_count # 0
        /\ ~(frontend_count > site_count)

MonitorPayload(p) ==
    /\ \A i \in DOMAIN p : validate_label(p[i].label)
    /\ validate_settings(p)

----------------------------------------------------------------------------

(* A run that no request has scheduled yet. *)
NoRun ==
    [pc |-> "idle", payload |-> <<>>, sites |-> <<>>, frontend_url |-> "N/A",
     fetch |-> <<>>, order |-> <<>>, results |-> <<>>, message_lines |-> <<>>,
     final_payload |-> None, posts |-> 0, post_status |-> 0, caught |-> None,
     propagated |-> None]

Init ==
    /\ request = <<>>
    /\ accepted = 0
    /\ other = NoRun
    /\ pc = "idle"
    /\ http = 0
    /\ payload = <<>>
    /\ sites = <<>>
    /\ frontend_url = "N/A"
    /\ fetch = <<>>
    /\ order = <<>>
    /\ results = <<>>
    /\ message_lines = <<>>
    /\ final_payload = None
    /\ posts = 0
    /\ post_status = 0
    /\ caught = None
    /\ propagated = None
    /\ tracing = FALSE

(* A run still on its way: scheduled, or suspended at one of its awaits. *)
InFlight(run) == run.pc \in {"scheduled", "gather", "post"}

(* Mutant: a trigger that arrives while another run is on its way is       *)
(* folded into that run.                                                   *)
add_task_coalesced(p, running) ==
    IF InFlight(running)
    THEN [pc |-> "idle", payload |-> <<>>]
    ELSE [pc |-> "scheduled", payload |-> p]

(* background_tasks.add_task(monitor_dau_task, payload, settings): the     *)
(* task is added whatever else is running.                                 *)
add_task(p, running) == [pc |-> "scheduled", payload |-> p]

(* POST /tick: pydantic validates the body (422 on failure); the handler   *)
(* adds the background task and answers 202.                               *)
monitor(p) ==
    /\ pc = "idle"
    /\ request' = p
    /\ IF MonitorPayload(p)
       THEN /\ pc' = add_task(p, other).pc
            /\ payload' = add_task(p, other).payload
            /\ http' = 202
            /\ accepted' = accepted + 1
       ELSE /\ http' = 422
            /\ UNCHANGED <<pc, payload, accepted>>
    /\ UNCHANGED other
    /\ UNCHANGED <<sites, frontend_url, fetch, order, results, message_lines,
                   final_payload, posts, post_status, caught, propagated, tracing>>

----------------------------------------------------------------------------
(* What a site can answer to one GET. *)

Body(text, json) == [text |-> text, json |-> json]

Counts == {10, 42}

OkBodies ==
    { Body("count", Some({<<"unique_visitors", Some(v)>>})) : v \in Counts }
    \cup { Body("empty", Some({})),
           Body("null", Some({<<"unique_visitors", None>>})),
           Body("html", None) }

Response(status, body, exc) == [status |-> status, body |-> body, exc |-> exc]

NoBody == Body("", None)

Responses(site) ==
    IF site = BadUrl
    THEN { Response(0, NoBody, "UnsupportedProtocol") }
    ELSE { Response(200, b, "none") : b \in OkBodies }
         \cup { Response(s, Body("oops", None), "none") : s \in {302, 500} }
         \cup { Response(0, NoBody, "ReadTimeout") }

(* Mutant: data.get("unique_visitors"), the default forgotten. *)
dict_get_no_default(obj, key, default) ==
    IF \E kv \in obj : kv[1] = key
    THEN (CHOOSE kv \in obj : kv[1] = key)[2]
    ELSE None

(* dict.get(key, default) on a parsed JSON object. *)
dict_get(obj, key, default) ==
    IF \E kv \in obj : kv[1] = key
    THEN (CHOOSE kv \in obj : kv[1] = key)[2]
    ELSE default

DAUResponse(site, dau, error) ==
    [class |-> "DAUResponse", site |-> site, dau |-> dau, error |-> error]

(* The value of a call that falls off the end of the function. *)
PyNone == [class |-> "NoneType", site |-> "", dau |-> None, error |-> None]

Return(v) == [act |-> "return", value |-> v]

Sleep == [act |-> "sleep", value |-> PyNone]

HttpError(status, text) == [msg |-> "HTTP", status |-> status, text |-> text]

ExcText(e) == [msg |-> e, status |-> 0, text |-> ""]

(* Mutant: the retry bound off by one. *)
last_attempt_early(attempt) == attempt = MAX_RETRIES - 2

(* attempt == settings.MAX_RETRIES - 1 *)
last_attempt(attempt) == attempt = MAX_RETRIES - 1

(* except Exception as e: (lines 118-125) *)
on_exception(site, attempt, e) ==
    IF last_attempt(attempt)
    THEN Return(DAUResponse(site, None, Some(ExcText(e))))
    ELSE Sleep

(* Mutant: the exhausted-retries test made before the status test, so    *)
(* that a success on the last attempt is reported as a failure.            *)
on_200_last_fails(site, attempt, body) ==
    IF last_attempt(attempt)
    THEN Return([class |-> "DAUResponse", site |-> site, dau |-> None,
                 error |-> Some([msg |-> "retries exhausted", status |-> 0,
                                 text |-> ""])])
    ELSE IF body.json = None
    THEN on_exception(site, attempt, "JSONDecodeError")
    ELSE Return([class |-> "DAUResponse", site |-> site,
                 dau |-> dict_get(body.json[1], "unique_visitors", Some(0)),
                 error |-> None])

(* Mutant: an unparsable body ends the fetch at once, without a retry. *)
on_200_no_retry(site, attempt, body) ==
    IF body.json = None
    THEN Return([class |-> "DAUResponse", site |-> site, dau |-> None,
                 error |-> Some([msg |-> "JSONDecodeError", status |-> 0,
                                 text |-> ""])])
    ELSE Return([class |-> "DAUResponse", site |-> site,
                 dau |-> dict_get(body.json[1], "unique_visitors", Some(0)),
                 error |-> None])

(* if response.status_code == 200: (lines 99-106) *)
on_200(site, attempt, body) ==
    IF body.json = None
    THEN on_exception(site, attempt, "JSONDecodeError")
    ELSE Return(DAUResponse(site,
                            dict_get(body.json[1], "unique_visitors", Some(0)),
                            None))

(* if response.status_code >= 400: (lines 108-116) *)
on_error_status(site, attempt, r) ==
    IF last_attempt(attempt)
    THEN Return(DAUResponse(site, None, Some(HttpError(r.status, r.body.text))))
    ELSE Sleep

(* One pass through the body of the retry loop, up to the sleep. *)
attempt_outcome(site, attempt, r) ==
    IF r.exc # "none" THEN on_exception(site, attempt, r.exc)
    ELSE IF r.status = 200 THEN on_200(site, attempt, r.body)
    ELSE IF r.status >= 400 THEN on_error_status(site, attempt, r)
    ELSE Sleep

(* Exponential backoff: 2 to the power attempt. *)
backoff(attempt) == 2 ^ attempt

(* A fetch_dau_data coroutine.  pc: get (a GET is in flight), sleep,       *)
(* returned.  attempt: the loop variable.  gets: GETs issued.               *)
(* slept: the delays passed to asyncio.sleep.  ret: the value returned.    *)
(* hist: the responses seen, one per attempt (recorded when tracing).      *)
NewFetch ==
    [pc |-> "get", attempt |-> 0, gets |-> 1, slept |-> <<>>, ret |-> PyNone,
     hist |-> <<>>]

----------------------------------------------------------------------------
(* monitor_dau_task. *)

(* [s.default for s in payload.settings if s.label.startswith("site-")] *)
extract_sites(settings) ==
    LET hits == SelectSeq(settings, LAMBDA s : startswith(s.label, "site-"))
    IN  [i \in DOMAIN hits |-> hits[i].default]

(* Mutant: the first setting whose label starts with "frontend-". *)
extract_frontend_url_prefix(settings) ==
    LET hits == SelectSeq(settings, LAMBDA s : startswith(s.label, "frontend-"))
    IN  IF hits = <<>> THEN "N/A" ELSE hits[1].default

(* next((s.default for s in ... if s.label == "frontend-site"), "N/A") *)
extract_frontend_url(settings) ==
    LET hits == SelectSeq(settings, LAMBDA s : s.label = Label("frontend-", "site"))
    IN  IF hits = <<>> THEN "N/A" ELSE hits[1].default

(* The run starts: lines 131-148, up to the await of gather, which starts  *)
(* one fetch per site; each issues its first GET.                          *)
start ==
    /\ pc = "scheduled"
    /\ sites' = extract_sites(payload)
    /\ frontend_url' = extract_frontend_url(payload)
    /\ fetch' = [i \in DOMAIN extract_sites(payload) |-> NewFetch]
    /\ pc' = "gather"
    /\ UNCHANGED <<http, request, accepted, other, payload, order, results, message_lines, final_payload,
                   posts, post_status, caught, propagated, tracing>>

(* Mutant: the exception is logged and swallowed. *)
except_handler_swallow(e) == [pc |-> "done", caught |-> Some(e), propagated |-> None]

(* except Exception as e: logger.exception(...); raise  (lines 196-198) *)
except_handler(e) == [pc |-> "raised", caught |-> Some(e), propagated |-> Some(e)]

(* The GET of site i is answered with r (or fails with r.exc). *)
get_returns(i, r) ==
    /\ pc = "gather"
    /\ fetch[i].pc = "get"
    /\ LET f == fetch[i]
           out == attempt_outcome(sites[i], f.attempt, r)
           seen == [f EXCEPT !.hist = IF tracing THEN Append(f.hist, r) ELSE f.hist]
       IN  IF out.act = "return"
           THEN /\ fetch' = [fetch EXCEPT ![i] =
                               [seen EXCEPT !.pc = "returned", !.ret = out.value]]
                /\ order' = Append(order, i)
           ELSE /\ fetch' = [fetch EXCEPT ![i] =
                               [seen EXCEPT !.pc = "sleep",
                                            !.slept = Append(f.slept, backoff(f.attempt))]]
                /\ UNCHANGED order
    /\ UNCHANGED <<pc, http, request, accepted, other, payload, sites, frontend_url, results, message_lines,
                   final_payload, posts, post_status, caught, propagated, tracing>>

(* asyncio.sleep of site i is over: the next iteration issues its GET, or  *)
(* the loop is exhausted and the function ends without a return statement. *)
wake_up(i) ==
    /\ pc = "gather"
    /\ fetch[i].pc = "sleep"
    /\ LET f == fetch[i]
       IN  IF f.attempt + 1 < MAX_RETRIES
           THEN /\ fetch' = [fetch EXCEPT ![i] =
                               [f EXCEPT !.pc = "get", !.attempt = f.attempt + 1,
                                         !.gets = f.gets + 1]]
                /\ UNCHANGED order
           ELSE /\ fetch' = [fetch EXCEPT ![i] =
                               [f EXCEPT !.pc = "returned", !.ret = PyNone]]
                /\ order' = Append(order, i)
    /\ UNCHANGED <<pc, http, request, accepted, other, payload, sites, frontend_url, results, message_lines,
                   final_payload, posts, post_status, caught, propagated, tracing>>

(* Mutant: the values in the order the awaitables completed. *)
gather_as_completed(fs, completed) == [k \in DOMAIN fs |-> fs[completed[k]].ret]

(* asyncio.gather: the values of the awaitables, in the order given. *)
gather(fs, completed) == [i \in DOMAIN fs |-> fs[i].ret]

(* Mutant: the template chosen by the error field, not by the value. *)
block_by_error(result, frontend) ==
    IF result.error = None
    THEN [template |-> "Site Monitored", frontend |-> frontend, site |-> result.site,
          dau |-> result.dau, error |-> None]
    ELSE [template |-> "Site", frontend |-> frontend, site |-> result.site,
          dau |-> None, error |-> result.error]

(* The two message templates of lines 157-170. *)
block(result, frontend) ==
    IF result.dau # None
    THEN [template |-> "Site Monitored", frontend |-> frontend, site |-> result.site,
          dau |-> result.dau, error |-> None]
    ELSE [template |-> "Site", frontend |-> frontend, site |-> result.site,
          dau |-> None, error |-> result.error]

(* The index of the first result that is None (result.dau raises           *)
(* AttributeError there), or 0.                                            *)
first_none(rs) ==
    IF \E i \in DOMAIN rs : rs[i] = PyNone
    THEN CHOOSE i \in DOMAIN rs : rs[i] = PyNone /\ \A j \in 1..(i - 1) : rs[j] # PyNone
    ELSE 0

(* for i, result in enumerate(results): ... message_lines.append(message) *)
format(rs, frontend) ==
    LET stop == first_none(rs)
        n == IF stop = 0 THEN Len(rs) ELSE stop - 1
    IN  [i \in 1..n |-> block(rs[i], frontend)]

(* Mutant: any() in place of all(). *)
status_any(rs) ==
    IF \E i \in DOMAIN rs : rs[i].dau # None THEN "success" ELSE "error"

(* "success" if all(r.dau is not None for r in results) else "error" *)
status_of(rs) ==
    IF \A i \in DOMAIN rs : rs[i].dau # None THEN "success" ELSE "error"

(* Mutant: gather returns as soon as one awaitable is done. *)
any_settled(fs) == \E i \in DOMAIN fs : fs[i].pc = "returned"

(* Mutant: gather keeps waiting for a fetch that returned no value. *)
all_succeeded(fs) ==
    \A i \in DOMAIN fs : fs[i].pc = "returned" /\ fs[i].ret.dau # None

(* await asyncio.gather(...) resumes once every awaitable is done. *)
all_settled(fs) == \A i \in DOMAIN fs : fs[i].pc = "returned"

(* gather returns: lines 147-193, up to the await of client.post.  The     *)
(* coroutines are finished; their values live on in `results`.             *)
join ==
    /\ pc = "gather"
    /\ all_settled(fetch)
    /\ LET rs == gather(fetch, order)
       IN  /\ results' = rs
           /\ message_lines' = format(rs, frontend_url)
           /\ IF first_none(rs) # 0
              THEN /\ pc' = except_handler("AttributeError").pc
                   /\ caught' = except_handler("AttributeError").caught
                   /\ propagated' = except_handler("AttributeError").propagated
                   /\ UNCHANGED <<final_payload, posts>>
              ELSE /\ final_payload' =
                        Some([message |-> format(rs, frontend_url),
                              status |-> status_of(rs)])
                   /\ posts' = posts + 1
                   /\ pc' = "post"
                   /\ UNCHANGED <<caught, propagated>>
    /\ fetch' = <<>>
    /\ UNCHANGED <<http, request, accepted, other, payload, sites, frontend_url, order, post_status, tracing>>

(* What the callback receiver can do with the POST. *)
PostAnswers ==
    { [status |-> 200, exc |-> "none"], [status |-> 500, exc |-> "none"],
      [status |-> 0, exc |-> "ConnectError"] }

(* await client.post(...) is over (lines 190-194): the status is logged,   *)
(* or the transport error reaches the except clause.                       *)
post_returns(a) ==
    /\ pc = "post"
    /\ IF a.exc = "none"
       THEN /\ post_status' = a.status
            /\ pc' = "done"
            /\ UNCHANGED <<caught, propagated>>
       ELSE /\ pc' = except_handler(a.exc).pc
            /\ caught' = except_handler(a.exc).caught
            /\ propagated' = except_handler(a.exc).propagated
            /\ UNCHANGED post_status
    /\ UNCHANGED <<http, request, accepted, other, payload, sites, frontend_url, fetch, order, results,
                   message_lines, final_payload, posts, tracing>>

Next ==
    \/ \E p \in Payloads : monitor(p)
    \/ start
    \/ \E i \in DOMAIN fetch : \E r \in Responses(sites[i]) : get_returns(i, r)
    \/ \E i \in DOMAIN fetch : wake_up(i)
    \/ join
    \/ \E a \in PostAnswers : post_returns(a)

Spec == Init /\ [][Next]_vars

(* The next step of the fetch of site i: its GET or its sleep is over. *)
fetch_step(i) ==
    /\ i \in DOMAIN fetch
    /\ \/ \E r \in Responses(sites[i]) : get_returns(i, r)
       \/ wake_up(i)

(* Every outbound call returns or times out (each GET within               *)
(* REQUEST_TIMEOUT, each sleep after its delay, the POST within the        *)
(* client's timeout), and the event loop resumes a coroutine that can run. *)
Fairness ==
    /\ WF_vars(start)
    /\ \A i \in 1..MaxSites : WF_vars(fetch_step(i))
    /\ WF_vars(join)
    /\ WF_vars(\E a \in PostAnswers : post_returns(a))

LiveSpec == Init /\ [][Next]_vars /\ Fairness

----------------------------------------------------------------------------
(* One call fetch_dau_data(site, settings) on its own, recording the       *)
(* response of every attempt.                                              *)

FetchInit ==
    /\ request = <<>>
    /\ accepted = 0
    /\ other = NoRun
    /\ pc = "gather"
    /\ http = 0
    /\ payload = <<>>
    /\ sites \in {<<u>> : u \in SiteUrls}
    /\ frontend_url = "N/A"
    /\ fetch = <<NewFetch>>
    /\ order = <<>>
    /\ results = <<>>
    /\ message_lines = <<>>
    /\ final_payload = None
    /\ posts = 0
    /\ post_status = 0
    /\ caught = None
    /\ propagated = None
    /\ tracing = TRUE

FetchNext ==
    \/ \E r \in Responses(sites[1]) : get_returns(1, r)
    \/ wake_up(1)

FetchSpec == FetchInit /\ [][FetchNext]_vars

----------------------------------------------------------------------------
(* Two triggers that overlap.  The variables pc .. propagated hold one run *)
(* and `other` holds the second; the event loop resumes either of them at  *)
(* an await, which `switch` models by exchanging the two.                  *)

Main ==
    [pc |-> pc, payload |-> payload, sites |-> sites, frontend_url |-> frontend_url,
     fetch |-> fetch, order |-> order, results |-> results,
     message_lines |-> message_lines, final_payload |-> final_payload,
     posts |-> posts, post_status |-> post_status, caught |-> caught,
     propagated |-> propagated]

switch ==
    /\ other' = Main
    /\ pc' = other.pc
    /\ payload' = other.payload
    /\ sites' = other.sites
    /\ frontend_url' = other.frontend_url
    /\ fetch' = other.fetch
    /\ order' = other.order
    /\ results' = other.results
    /\ message_lines' = other.message_lines
    /\ final_payload' = other.final_payload
    /\ posts' = other.posts
    /\ post_status' = other.post_status
    /\ caught' = other.caught
    /\ propagated' = other.propagated
    /\ UNCHANGED <<http, request, accepted, tracing>>

(* The requests the two triggers carry: no setting, or one site- entry. *)
TickPayloads == SeqsUpTo(SiteSettings, 1)

TicksNext ==
    \/ \E p \in TickPayloads : monitor(p)
    \/ start
    \/ \E i \in DOMAIN fetch : \E r \in Responses(sites[i]) : get_returns(i, r)
    \/ \E i \in DOMAIN fetch : wake_up(i)
    \/ join
    \/ \E a \in PostAnswers : post_returns(a)
    \/ switch

TicksSpec == Init /\ [][TicksNext]_vars

----------------------------------------------------------------------------
(* One call monitor_dau_task(payload) made directly, without the request   *)
(* validation of POST /tick: the payload may hold no site- entry.          *)

TaskPayloads ==
    { a \o b : a \in SeqsUpTo(SiteSettings, 1), b \in SeqsUpTo(ExtraSettings, 1) }

TaskInit ==
    /\ request = <<>>
    /\ accepted = 0
    /\ other = NoRun
    /\ pc = "scheduled"
    /\ http = 0
    /\ payload \in TaskPayloads
    /\ sites = <<>>
    /\ frontend_url = "N/A"
    /\ fetch = <<>>
    /\ order = <<>>
    /\ results = <<>>
    /\ message_lines = <<>>
    /\ final_payload = None
    /\ posts = 0
    /\ post_status = 0
    /\ caught = None
    /\ propagated = None
    /\ tracing = FALSE

TaskNext ==
    \/ start
    \/ \E i \in DOMAIN fetch : \E r \in Responses(sites[i]) : get_returns(i, r)
    \/ \E i \in DOMAIN fetch : wake_up(i)
    \/ join
    \/ \E a \in PostAnswers : post_returns(a)

TaskSpec == TaskInit /\ [][TaskNext]_vars

----------------------------------------------------------------------------
(* Properties of the run (checked under Spec).                             *)

RunEnded == pc \in {"done", "raised"}

(* C1: whenever gather returns and a report is built, the report holds     *)
(* exactly one block per site, and the i-th block is the block of the      *)
(* value the i-th site's fetch returned, whatever the order in which the   *)
(* fetches completed.                                                      *)
C1_BlocksInDeclarationOrder ==
    [][ (pc = "gather" /\ pc' = "post") =>
          /\ final_payload' # None
          /\ final_payload'[1].message = message_lines'
          /\ Len(message_lines') = Len(sites)
          /\ \A i \in DOMAIN sites :
               /\ message_lines'[i] = block(fetch[i].ret, frontend_url)
               /\ message_lines'[i].site = sites[i] ]_vars

(* A report of two blocks whose second site completed first. *)
C1_Witness ==
    /\ pc = "post"
    /\ Len(message_lines) = 2
    /\ order = <<2, 1>>
    /\ message_lines[1] # message_lines[2]

(* C2 as claimed: every run that has ended issued exactly one POST. *)
C2_ExactlyOnePostPerRun ==
    /\ posts <= 1
    /\ RunEnded => posts = 1

(* C3: the status of the payload is "success" exactly when every outcome   *)
(* of the run has a value, and "error" otherwise.                          *)
C3_StatusIsConjunction ==
    final_payload # None =>
        LET status == final_payload[1].status
        IN  /\ status \in {"success", "error"}
            /\ status = "success" <=> \A i \in DOMAIN results : results[i].dau # None
            /\ status = "error" <=> \E i \in DOMAIN results : results[i].dau = None

(* A delivered "error" payload over one outcome with a value and one without. *)
C3_Witness ==
    /\ final_payload # None
    /\ final_payload[1].status = "error"
    /\ \E i, j \in DOMAIN results : results[i].dau # None /\ results[j].dau = None

(* C5 as claimed: once the fetching is over, the run holds an outcome and  *)
(* a block for every site and has gone on to the delivery.                 *)
C5_FailureNeverAbortsBatch ==
    pc \in {"post", "done", "raised"} =>
        /\ Len(results) = Len(sites)
        /\ \A i \in DOMAIN results : results[i].class = "DAUResponse"
        /\ Len(message_lines) = Len(sites)
        /\ final_payload # None

FrontendLabels ==
    LET hits == SelectSeq(payload, LAMBDA s : s.label.prefix = "frontend-")
    IN  [i \in DOMAIN hits |-> hits[i].default]

----------------------------------------------------------------------------
(* Properties of one fetch (checked under FetchSpec, which records the     *)
(* response of every attempt in hist).                                     *)

Returned(f) == f.pc = "returned"

LastOf(f) == f.hist[Len(f.hist)]

(* A timeout, another transport error, or a status >= 400. *)
FailedAttempt(r) == r.exc # "none" \/ (r.exc = "none" /\ r.status >= 400)

ReasonOf(r) ==
    IF r.exc # "none"
    THEN [msg |-> r.exc, status |-> 0, text |-> ""]
    ELSE [msg |-> "HTTP", status |-> r.status, text |-> r.body.text]

(* A 200 whose body is an object with a numeric unique_visitors or none. *)
GoodAnswer(r) ==
    /\ r.exc = "none"
    /\ r.status = 200
    /\ r.body.json # None
    /\ \A kv \in r.body.json[1] : kv[2] # None

CountOf(r) ==
    IF \E kv \in r.body.json[1] : kv[1] = "unique_visitors"
    THEN (CHOOSE kv \in r.body.json[1] : kv[1] = "unique_visitors")[2][1]
    ELSE 0

(* C4 as claimed: every DAUResponse returned has exactly one of dau and    *)
(* error set.                                                              *)
C4_ExactlyOneOfValueAndReason ==
    \A i \in DOMAIN fetch :
        (Returned(fetch[i]) /\ fetch[i].ret.class = "DAUResponse") =>
            (fetch[i].ret.dau # None) # (fetch[i].ret.error # None)

(* C7: a fetch whose every attempt failed has issued exactly MAX_RETRIES   *)
(* GETs when it returns, and returns a failure whose reason is that of     *)
(* the last attempt; no fetch issues more than MAX_RETRIES GETs.           *)
C7_ExactlyMaxRetriesThenFailure ==
    \A i \in DOMAIN fetch :
        LET f == fetch[i]
        IN  /\ f.gets <= MAX_RETRIES
            /\ (Returned(f) /\ \A k \in DOMAIN f.hist : FailedAttempt(f.hist[k])) =>
                  /\ f.gets = MAX_RETRIES
                  /\ Len(f.hist) = MAX_RETRIES
                  /\ f.ret.class = "DAUResponse"
                  /\ f.ret.dau = None
                  /\ f.ret.error = Some(ReasonOf(LastOf(f)))

(* Three failed attempts, a timeout among them and an error status last. *)
C7_Witness ==
    \E i \in DOMAIN fetch :
        /\ Returned(fetch[i])
        /\ Len(fetch[i].hist) = 3
        /\ \A k \in DOMAIN fetch[i].hist : FailedAttempt(fetch[i].hist[k])
        /\ fetch[i].hist[1].exc = "ReadTimeout"
        /\ fetch[i].hist[3].status = 500
        /\ fetch[i].ret.dau = None

(* C8: when the attempts before the latest one all failed and the latest   *)
(* one is a good 200, the fetch has returned a success that carries the    *)
(* count of that attempt and no error, and no further GET was issued.      *)
C8_SuccessAfterFailures ==
    \A i \in DOMAIN fetch :
        LET f == fetch[i]
            n == Len(f.hist)
        IN  ( /\ n >= 1
              /\ n - 1 < MAX_RETRIES
              /\ \A k \in 1..(n - 1) : FailedAttempt(f.hist[k])
              /\ GoodAnswer(f.hist[n]) ) =>
                  /\ Returned(f)
                  /\ f.ret.class = "DAUResponse"
                  /\ f.ret.dau = Some(CountOf(f.hist[n]))
                  /\ f.ret.error = None
                  /\ f.gets = n

(* Two failures of different kinds, then a success with the count 42. *)
C8_Witness ==
    \E i \in DOMAIN fetch :
        /\ Returned(fetch[i])
        /\ Len(fetch[i].hist) = 3
        /\ fetch[i].hist[1].status = 500
        /\ fetch[i].hist[2].exc = "ReadTimeout"
        /\ GoodAnswer(fetch[i].hist[3])
        /\ fetch[i].ret.dau = Some(42)

(* C10: a 200 whose body carries unique_visitors = v yields dau = v and    *)
(* no error; a 200 whose body is an object without unique_visitors yields  *)
(* dau = 0 and no error.                                                   *)
C10_CountOrZero ==
    \A i \in DOMAIN fetch :
        LET f == fetch[i]
        IN  (f.hist # <<>> /\ LastOf(f).exc = "none" /\ LastOf(f).status = 200
               /\ LastOf(f).body.json # None) =>
               LET obj == LastOf(f).body.json[1]
               IN  /\ Returned(f)
                   /\ f.ret.class = "DAUResponse"
                   /\ f.ret.error = None
                   /\ \A kv \in obj :
                        kv[1] = "unique_visitors" => f.ret.dau = kv[2]
                   /\ (\A kv \in obj : kv[1] # "unique_visitors") => f.ret.dau = Some(0)

(* A 200 with the body {} has yielded dau = 0. *)
C10_Witness ==
    \E i \in DOMAIN fetch :
        /\ Returned(fetch[i])
        /\ LastOf(fetch[i]).status = 200
        /\ LastOf(fetch[i]).body.json = Some({})
        /\ fetch[i].ret.dau = Some(0)
        /\ fetch[i].ret.error = None


----------------------------------------------------------------------------
(* Properties of the trigger (checked under Spec).                         *)

SiteEntries(v) == {i \in DOMAIN v : v[i].label.prefix = "site-"}

FrontendEntries(v) == {i \in DOMAIN v : v[i].label.prefix = "frontend-"}

(* C11: a request with no site- entry, or with more frontend- entries      *)
(* than site- entries, is answered 422 and schedules no run; so the        *)
(* request of every run has at least one site- entry and no more           *)
(* frontend- entries than site- entries, and the run fetches at least one  *)
(* site.                                                                   *)
C11_InvalidRequestsNeverRun ==
    /\ ( /\ http # 0
         /\ \/ SiteEntries(request) = {}
            \/ Cardinality(FrontendEntries(request)) > Cardinality(SiteEntries(request)) )
       => (http = 422 /\ pc = "idle" /\ accepted = 0)
    /\ pc # "idle" =>
         /\ SiteEntries(payload) # {}
         /\ Cardinality(FrontendEntries(payload)) <= Cardinality(SiteEntries(payload))
    /\ pc \notin {"idle", "scheduled"} =>
         /\ Len(sites) = Cardinality(SiteEntries(payload))
         /\ Len(sites) >= 1

(* A request with one site and two frontend- entries was turned down. *)
C11_Witness ==
    /\ http = 422
    /\ pc = "idle"
    /\ Cardinality(SiteEntries(request)) = 1
    /\ Cardinality(FrontendEntries(request)) = 2


----------------------------------------------------------------------------
(* Further properties of one fetch (checked under FetchSpec).              *)

(* C12 as claimed: a fetch issues at most MAX_RETRIES GETs and, when it    *)
(* ends, has returned a DAUResponse.                                       *)
C12_AlwaysReturnsOutcome ==
    \A i \in DOMAIN fetch :
        /\ fetch[i].gets <= MAX_RETRIES
        /\ Returned(fetch[i]) => fetch[i].ret.class = "DAUResponse"

(* C13 as claimed: the k-th delay of a fetch is 2^(k-1), and a fetch       *)
(* sleeps at most MAX_RETRIES - 1 times, never after its final attempt.    *)
C13_BackoffDelays ==
    \A i \in DOMAIN fetch :
        LET f == fetch[i]
        IN  /\ \A k \in DOMAIN f.slept : f.slept[k] = 2 ^ (k - 1)
            /\ Len(f.slept) <= MAX_RETRIES - 1
            /\ (Returned(f) /\ f.gets = MAX_RETRIES) => Len(f.slept) = MAX_RETRIES - 1


----------------------------------------------------------------------------
(* Further properties of the run (checked under Spec).                     *)

(* C14: the run leaves the gather, and the POST is issued, only in a step  *)
(* before which every site's fetch had returned; until then nothing is     *)
(* posted and every fetch that has not returned is still there.            *)
C14_PostOnlyAfterAllSettled ==
    [][ /\ (pc = "gather" /\ (pc' # "gather" \/ posts' # posts
                                \/ final_payload' # final_payload)) =>
             /\ DOMAIN fetch = DOMAIN sites
             /\ \A i \in DOMAIN sites : fetch[i].pc = "returned"
             /\ Len(order) = Len(sites)
             /\ Len(results') = Len(sites)
        /\ (pc = "gather" /\ pc' = "gather") =>
             /\ posts' = 0
             /\ final_payload' = None
             /\ DOMAIN fetch' = DOMAIN sites ]_vars

(* The first site failed first; the second went on and succeeded later,    *)
(* and the report was posted after both.                                   *)
C14_Witness ==
    /\ pc = "post"
    /\ posts = 1
    /\ order = <<1, 2>>
    /\ results[1].dau = None
    /\ results[1].error # None
    /\ results[2].dau # None
    /\ sites[1] = sites[2]


(* C15 (checked under TaskSpec): a run whose payload yields no site ends   *)
(* with an empty report whose status is "error".                           *)
C15_ZeroSitesGiveError ==
    (pc \in {"post", "done", "raised"} /\ extract_sites(payload) = <<>>) =>
        /\ final_payload # None
        /\ final_payload[1].message = <<>>
        /\ final_payload[1].status = "error"


(* A 200 whose body response.json() cannot parse. *)
Malformed(r) == r.exc = "none" /\ r.status = 200 /\ r.body.json = None

(* C16 (checked under FetchSpec): an attempt answered 200 with an          *)
(* unparsable body is a failed attempt.  Before the last attempt it does   *)
(* not end the fetch: the fetch sleeps the backoff of that attempt, the    *)
(* delay an error status at that attempt gets, and then issues the next    *)
(* GET.  On the last attempt the fetch returns a failure whose reason is   *)
(* the parse error.                                                        *)
C16_MalformedBodyIsFailedAttempt ==
    \A i \in DOMAIN fetch :
        LET f == fetch[i]
            n == Len(f.hist)
        IN  \A k \in DOMAIN f.hist :
              Malformed(f.hist[k]) =>
                IF k < MAX_RETRIES
                THEN /\ Len(f.slept) >= k
                     /\ f.slept[k] = 2 ^ (k - 1)
                     /\ attempt_outcome(sites[i], k - 1, f.hist[k]) =
                          attempt_outcome(sites[i], k - 1,
                                          Response(500, Body("oops", None), "none"))
                     /\ n = k => \/ f.pc = "sleep" /\ f.gets = k
                                 \/ f.pc = "get" /\ f.gets = k + 1
                     /\ n > k => f.gets >= k + 1
                ELSE /\ Returned(f)
                     /\ f.gets = MAX_RETRIES
                     /\ f.ret.class = "DAUResponse"
                     /\ f.ret.dau = None
                     /\ f.ret.error = Some(ExcText("JSONDecodeError"))

(* Three unparsable 200s: two retries, then the failure. *)
C16_Witness ==
    \E i \in DOMAIN fetch :
        /\ Returned(fetch[i])
        /\ Len(fetch[i].hist) = 3
        /\ \A k \in DOMAIN fetch[i].hist : Malformed(fetch[i].hist[k])
        /\ fetch[i].slept = <<1, 2>>
        /\ fetch[i].ret.error = Some(ExcText("JSONDecodeError"))


(* C17 (checked under Spec): in every report built, the i-th block is that *)
(* of the i-th site's outcome: a success block with the outcome's count    *)
(* when the outcome has a value, a failure block with the outcome's error  *)
(* when it has none; and the status is "error" exactly when some block is  *)
(* a failure block.                                                        *)
C17_BlocksAndStatusAgree ==
    final_payload # None =>
        LET report == final_payload[1]
        IN  /\ Len(report.message) = Len(sites)
            /\ Len(results) = Len(sites)
            /\ \A i \in DOMAIN sites :
                 /\ results[i].site = sites[i]
                 /\ report.message[i].site = sites[i]
                 /\ IF results[i].dau # None
                    THEN /\ report.message[i].template = "Site Monitored"
                         /\ report.message[i].dau = results[i].dau
                    ELSE /\ report.message[i].template = "Site"
                         /\ report.message[i].error = results[i].error
            /\ report.status = "error" <=>
                 \E i \in DOMAIN report.message : report.message[i].template = "Site"

(* The first site counted 10, the second answered 500 three times. *)
C17_Witness ==
    /\ final_payload # None
    /\ Len(results) = 2
    /\ results[1].dau = Some(10)
    /\ results[2].error = Some(HttpError(500, "oops"))
    /\ final_payload[1].message[1].dau = Some(10)
    /\ final_payload[1].message[2].error = Some(HttpError(500, "oops"))
    /\ final_payload[1].status = "error"


----------------------------------------------------------------------------
(* Overlapping triggers (checked under TicksSpec).                         *)

(* What holds of one run taken by itself: its sites and fetches are those  *)
(* of its own request, it posts at most once, and the report it posts is   *)
(* computed from its own results.                                          *)
OwnRun(run) ==
    /\ run.pc # "idle" => MonitorPayload(run.payload)
    /\ run.pc \notin {"idle", "scheduled"} => run.sites = extract_sites(run.payload)
    /\ run.pc = "gather" => DOMAIN run.fetch = DOMAIN run.sites
    /\ run.posts <= 1
    /\ run.pc \in {"post", "done"} =>
         /\ run.posts = 1
         /\ Len(run.results) = Len(run.sites)
         /\ \A i \in DOMAIN run.sites : run.results[i].site = run.sites[i]
         /\ run.final_payload =
              Some([message |-> format(run.results, run.frontend_url),
                    status |-> status_of(run.results)])

(* C18: every request answered 202 has scheduled one run of its own, so    *)
(* that the runs are as many as the accepted requests; each run has its    *)
(* own fetches and its own delivery; and a step of one run leaves the      *)
(* other run as it was.                                                    *)
C18_RunsAreIndependent ==
    /\ [](/\ accepted = Cardinality({k \in {1, 2} : <<Main, other>>[k].pc # "idle"})
          /\ OwnRun(Main)
          /\ OwnRun(other))
    /\ [][ \/ other' = other
           \/ (other' = Main /\ Main' = other
                 /\ UNCHANGED <<http, request, accepted>>) ]_vars

(* The same request accepted twice: one run has delivered its report while *)
(* the other is still retrying its own fetch.                              *)
C18_Witness ==
    /\ accepted = 2
    /\ payload = other.payload
    /\ pc = "done"
    /\ posts = 1
    /\ final_payload[1].status = "success"
    /\ other.pc = "gather"
    /\ other.fetch[1].attempt = 1
    /\ other.posts = 0


----------------------------------------------------------------------------
(* Termination (checked under LiveSpec).                                   *)

(* C19: every run that was scheduled ends: it has issued the callback POST *)
(* and the POST has returned, or the except clause has logged the          *)
(* exception that aborted it.  No run waits forever at the gather, in a    *)
(* retry loop or at the POST.                                              *)
C19_EveryRunTerminates ==
    (pc = "scheduled") ~>
        \/ pc = "done" /\ posts = 1
        \/ pc = "raised" /\ caught # None

(* A run that ended in the except clause before any POST was issued. *)
C19_Witness ==
    /\ pc = "raised"
    /\ caught = Some("AttributeError")
    /\ posts = 0
    /\ Len(sites) = 2
    /\ order = <<2, 1>>

====
